---- MODULE Spec2Model ----
(***************************************************************************)
(* Video segmentation pipeline of gyn-vision: the two HTTP endpoints       *)
(* /segment/video (batch: create_video_with_overlay) and                   *)
(* /segment/video/stream (streaming: stream_video_segmentation), their     *)
(* frame sampling loop, the scratch files and the video handles.           *)
(*                                                                         *)
(* A decoded frame is identified by its position in the video; the         *)
(* inference engine and the mask synthesis are a deterministic function of *)
(* the frame, so the overlay of frame i is the image tagged with i.        *)
(***************************************************************************)
EXTENDS Integers, Sequences, FiniteSets, TLC

VARIABLES batch, stream, calc

vars == <<batch, stream, calc>>

\* ---------------------------------------------------------------- bounds
\* largest number of frames cap.read() yields before it reports the end
MaxFrames == 10

\* ------------------------------------------------------ program constants
MinSampleRate == 1
MaxSampleRate == 30

\* sample_rate form values a caller may send (in range and out of range)
SampleRateInputs == {0 - 5, 0, 31, 1000} \cup (MinSampleRate..MaxSampleRate)

\* frame counts CAP_PROP_FRAME_COUNT may report; the container header is
\* read independently of the frames that later decode
ReportedCounts == 0..MaxFrames

codecs == <<"avc1", "H264", "X264", "mp4v">>

\* -------------------------------------------------------------- images
None == [fmt |-> "None", src |-> 0, overlaid |-> FALSE]

\* the frame cap.read() returns for the i-th read (OpenCV frames are BGR)
Frame(i) == [fmt |-> "BGR", src |-> i, overlaid |-> FALSE]

\* cv2.cvtColor with COLOR_BGR2RGB / COLOR_RGB2BGR: swaps the channel order
cvtColor(img, code) ==
    IF code = "BGR2RGB" /\ img.fmt = "BGR" THEN [img EXCEPT !.fmt = "RGB"]
    ELSE IF code = "RGB2BGR" /\ img.fmt = "RGB" THEN [img EXCEPT !.fmt = "BGR"]
    ELSE img

\* result['overlay_image'] of process_segmentation_result: the original RGB
\* frame blended with the colour mask decoded from the engine's output
process_segmentation_result(original_frame) ==
    [original_frame EXCEPT !.overlaid = TRUE]

\* cv2.imencode('.jpg', ...) followed by base64 and the data-URI prefix
imencode(img) == [fmt |-> "JPEG", src |-> img.src, overlaid |-> img.overlaid]

\* the overlay a due frame produces (lines 386-423 / 93-130)
OverlayOf(frame) ==
    cvtColor(process_segmentation_result(cvtColor(frame, "BGR2RGB")), "RGB2BGR")

\* ------------------------------------------------------------ arithmetic
\* Python's a % b for a >= 0 and b # 0 (the result takes the sign of b)
PyMod(a, b) ==
    IF b > 0 THEN a % b
    ELSE IF (a % (0 - b)) = 0 THEN 0 ELSE b + (a % (0 - b))

\* routes.py: sample_rate = max(1, min(30, sample_rate))
Min(a, b) == IF a < b THEN a ELSE b
Max(a, b) == IF a > b THEN a ELSE b
\* the clamp without its lower limit
ClampNoFloor(sample_rate) == Min(MaxSampleRate, sample_rate)

Clamp(sample_rate) == Max(MinSampleRate, Min(MaxSampleRate, sample_rate))

\* the due test without the - 1
should_process_off(frame_count, sample_rate) ==
    PyMod(frame_count, sample_rate) = 0

\* a due test that selects every frame
should_process_always(frame_count, sample_rate) == TRUE

\* should_process = (frame_count - 1) % sample_rate == 0
should_process(frame_count, sample_rate) ==
    PyMod(frame_count - 1, sample_rate) = 0

\* progress without the * 100
ProgressRatio(frame_count, total_frames) == <<frame_count, total_frames>>

\* 'progress': (frame_count / total_frames) * 100, kept as an exact fraction
Progress(frame_count, total_frames) == <<frame_count * 100, total_frames>>

\* ---------------------------------------------------------------- events
MetadataEvent(total_frames, sample_rate) ==
    [type |-> "metadata", total_frames |-> total_frames,
     sample_rate |-> sample_rate]

\* a frame event numbered by the processed frames
FrameEventByProcessed(frame_count, total_frames, processed_count, overlay) ==
    [type |-> "frame", frame_index |-> processed_count,
     total_frames |-> total_frames, processed_count |-> processed_count,
     frame_data |-> imencode(overlay),
     progress |-> Progress(frame_count, total_frames)]

FrameEvent(frame_count, total_frames, processed_count, overlay) ==
    [type |-> "frame", frame_index |-> frame_count,
     total_frames |-> total_frames, processed_count |-> processed_count,
     frame_data |-> imencode(overlay),
     progress |-> Progress(frame_count, total_frames)]

\* a complete event with its two counts exchanged
CompleteEventSwapped(frame_count, processed_count) ==
    [type |-> "complete", total_frames |-> processed_count,
     processed_frames |-> frame_count]

CompleteEvent(frame_count, processed_count) ==
    [type |-> "complete", total_frames |-> frame_count,
     processed_frames |-> processed_count]

\* ------------------------------------------------- streaming: the generator
\* the finally block of stream_video_segmentation: os.unlink(tmp_in_path)
StreamFinally(s) == [s EXCEPT !.tmp_in = FALSE]

\* an exception swallowed by the generator, which then completes
StreamRaiseSwallowed(s, e) ==
    [s EXCEPT !.events = Append(@, CompleteEvent(s.frame_count,
                                                 s.processed_count)),
              !.pc = "complete", !.exc = e]

\* an exception leaves the generator through the finally block
StreamRaise(s, e) == [StreamFinally(s) EXCEPT !.pc = "raised", !.exc = e]

StreamInit ==
    [pc |-> "idle", raw_rate |-> 0, sample_rate |-> 0, response |-> "none",
     tmp_in |-> FALSE, cap |-> "none", total_frames |-> 0,
     frame_count |-> 0, processed_count |-> 0, last_overlay_bgr |-> None,
     events |-> <<>>, sent |-> <<>>, inference_calls |-> 0,
     inferred |-> {}, failed |-> FALSE, exc |-> "none"]

\* f"data: {json.dumps(frame_data)}\n\n": the event framed as one SSE chunk
Sse(frame_data) == [data |-> frame_data, end |-> "\n\n"]

\* a consumer that asks for the next event without having sent the last
ConsumerEager(s) == TRUE

\* generate() calls next() on the generator only when its own yield of the
\* previous chunk has been resumed by the transport (routes.py:238-245)
ConsumerReady(s) == Len(s.sent) = Len(s.events)

\* POST /segment/video/stream: clamp, resolve the model, hand the generator
\* to StreamingResponse (its body has not run yet)
segment_video_stream(raw, known) ==
    /\ stream.pc = "idle"
    /\ batch.pc = "idle"
    /\ stream' = IF known
                 THEN [stream EXCEPT !.raw_rate = raw,
                                     !.sample_rate = Clamp(raw),
                                     !.pc = "created",
                                     !.response = "streaming"]
                 ELSE [stream EXCEPT !.raw_rate = raw,
                                     !.sample_rate = Clamp(raw),
                                     !.pc = "rejected",
                                     !.response = "error404"]
    /\ UNCHANGED <<batch, calc>>

\* first next(): temp file, VideoCapture, properties, yield metadata
StreamOpen(opened, reported) ==
    /\ stream.pc = "created"
    /\ ConsumerReady(stream)
    /\ LET s0 == [stream EXCEPT !.tmp_in = TRUE]
       IN stream' =
            IF ~opened
            THEN StreamRaise(s0, "ValueError")
            ELSE [s0 EXCEPT !.cap = "open",
                            !.total_frames = reported,
                            !.frame_count = 0,
                            !.processed_count = 0,
                            !.last_overlay_bgr = None,
                            !.events = <<MetadataEvent(reported, s0.sample_rate)>>,
                            !.pc = "metadata"]
    /\ UNCHANGED <<batch, calc>>

\* one iteration of the while loop in which cap.read() returns a frame;
\* ok: run_inference and process_segmentation_result do not raise
StreamFrame(ok) ==
    /\ stream.pc \in {"metadata", "frame", "loop"}
    /\ ConsumerReady(stream)
    /\ stream.frame_count < MaxFrames
    /\ LET fc  == stream.frame_count + 1
           s1  == [stream EXCEPT !.frame_count = fc]
           due == should_process(fc, s1.sample_rate)
           s2  == [s1 EXCEPT !.processed_count = @ + 1,
                             !.inference_calls = @ + 1,
                             !.inferred = @ \cup {fc}]
           s3  == IF due
                  THEN [s2 EXCEPT !.last_overlay_bgr = OverlayOf(Frame(fc))]
                  ELSE s1
       IN stream' =
            IF s1.sample_rate = 0
            THEN StreamRaise(s1, "ZeroDivisionError")
            ELSE IF due /\ ~ok
            THEN StreamRaise([s2 EXCEPT !.failed = TRUE], "InferenceError")
            ELSE IF s3.last_overlay_bgr = None
            THEN [s3 EXCEPT !.pc = "loop"]
            ELSE IF s3.total_frames = 0
            THEN StreamRaise(s3, "ZeroDivisionError")
            ELSE [s3 EXCEPT !.events =
                              Append(@, FrameEvent(fc, s3.total_frames,
                                                   s3.processed_count,
                                                   s3.last_overlay_bgr)),
                            !.pc = "frame"]
    /\ UNCHANGED <<batch, calc>>

\* cap.read() reports the end: cap.release(), yield complete
StreamEnd ==
    /\ stream.pc \in {"metadata", "frame", "loop"}
    /\ ConsumerReady(stream)
    /\ stream' = [stream EXCEPT !.cap = "released",
                                !.events =
                                  Append(@, CompleteEvent(stream.frame_count,
                                                          stream.processed_count)),
                                !.pc = "complete"]
    /\ UNCHANGED <<batch, calc>>

\* the consumer asks for the event after complete: the body runs off its
\* end through the finally block
StreamReturn ==
    /\ stream.pc = "complete"
    /\ ConsumerReady(stream)
    /\ stream' = [StreamFinally(stream) EXCEPT !.pc = "returned"]
    /\ UNCHANGED <<batch, calc>>

\* generate() frames the event it was handed and yields the chunk, which
\* the transport sends before it asks for the next one
StreamSend ==
    /\ stream.pc \in {"metadata", "frame", "complete"}
    /\ Len(stream.sent) < Len(stream.events)
    /\ stream' = [stream EXCEPT !.sent =
                      Append(@, Sse(stream.events[Len(stream.sent) + 1]))]
    /\ UNCHANGED <<batch, calc>>

\* the consumer drops the generator while it is suspended at a yield:
\* GeneratorExit is raised there and only the finally block runs
StreamClose ==
    /\ stream.pc \in {"metadata", "frame", "complete"}
    /\ stream' = [StreamFinally(stream) EXCEPT !.pc = "closed"]
    /\ UNCHANGED <<batch, calc>>

\* ---------------------------------------------------- batch: the video file
NoFile == [exists |-> FALSE, frames |-> <<>>]

\* ffmpeg -c:v libx264 -pix_fmt yuv420p: the same frames, re-encoded
Reencode(frames) ==
    [i \in 1..Len(frames) |-> [frames[i] EXCEPT !.fmt = "yuv420p"]]

\* the codec loop without its break: every codec is tried
RECURSIVE TriedAll(_, _)
TriedAll(i, avail) ==
    IF i > Len(codecs) THEN <<>>
    ELSE <<codecs[i]>> \o TriedAll(i + 1, avail)

\* the codecs tried, in order, until the first one of avail opened
RECURSIVE TriedFrom(_, _)
TriedFrom(i, avail) ==
    IF i > Len(codecs) THEN <<>>
    ELSE IF codecs[i] \in avail THEN <<codecs[i]>>
    ELSE <<codecs[i]>> \o TriedFrom(i + 1, avail)

\* the finally block of create_video_with_overlay: os.unlink(tmp_in_path)
BatchFinally(b) == [b EXCEPT !.tmp_in = FALSE]

\* an exception swallowed by the frame loop, the partial file returned
BatchRaisePartial(b, e) ==
    [BatchFinally(b) EXCEPT !.pc = "returned", !.exc = e,
                            !.response = "file",
                            !.body = b.output_file.frames]

\* the frame written for one input frame (lines 428-433)
FrameToWriteRaw(last_overlay_bgr, frame) == frame

FrameToWrite(last_overlay_bgr, frame) ==
    IF last_overlay_bgr # None THEN last_overlay_bgr ELSE frame

\* an exception leaves create_video_with_overlay through the finally block
\* and segment_video turns it into HTTPException(500)
BatchRaise(b, e) ==
    [BatchFinally(b) EXCEPT !.pc = "raised", !.exc = e,
                            !.response = "error500"]

BatchInit ==
    [pc |-> "idle", raw_rate |-> 0, sample_rate |-> 0, response |-> "none",
     tmp_in |-> FALSE, cap |-> "none", out |-> "none", tried |-> <<>>,
     avail |-> {}, codec |-> "none", ffmpeg |-> "none",
     total_frames |-> 0, frame_count |-> 0, processed_count |-> 0,
     last_overlay_bgr |-> None, output_file |-> NoFile,
     final_file |-> NoFile, returned |-> "none", body |-> <<>>,
     cleanup |-> "none", inference_calls |-> 0, inferred |-> {},
     failed |-> FALSE, exc |-> "none"]

\* POST /segment/video up to the call of create_video_with_overlay
segment_video(raw, known) ==
    /\ batch.pc = "idle"
    /\ stream.pc = "idle"
    /\ batch' = IF known
                THEN [batch EXCEPT !.raw_rate = raw,
                                   !.sample_rate = Clamp(raw),
                                   !.pc = "called"]
                ELSE [batch EXCEPT !.raw_rate = raw,
                                   !.sample_rate = Clamp(raw),
                                   !.pc = "rejected",
                                   !.response = "error404"]
    /\ UNCHANGED <<stream, calc>>

\* create_video_with_overlay up to the frame loop: both temp files, the
\* capture, its properties, the codec loop, the loop state
CreateOpen(opened, reported, avail) ==
    /\ batch.pc = "called"
    /\ LET b0 == [batch EXCEPT !.tmp_in = TRUE,
                               !.output_file = [exists |-> TRUE, frames |-> <<>>]]
           b1 == [b0 EXCEPT !.cap = "open", !.total_frames = reported]
           tr == TriedFrom(1, avail)
           b2 == [b1 EXCEPT !.tried = tr, !.avail = avail]
       IN batch' =
            IF ~opened
            THEN BatchRaise(b0, "ValueError")
            ELSE IF b1.sample_rate = 0
            THEN BatchRaise(b1, "ZeroDivisionError")
            ELSE IF tr[Len(tr)] \notin avail
            THEN BatchRaise([b2 EXCEPT !.out = "released"], "ValueError")
            ELSE [b2 EXCEPT !.out = "open",
                            !.codec = tr[Len(tr)],
                            !.frame_count = 0,
                            !.processed_count = 0,
                            !.last_overlay_bgr = None,
                            !.pc = "loop"]
    /\ UNCHANGED <<stream, calc>>

\* one iteration of the while loop in which cap.read() returns a frame;
\* ok: run_inference and process_segmentation_result do not raise
BatchFrame(ok) ==
    /\ batch.pc = "loop"
    /\ batch.frame_count < MaxFrames
    /\ LET fc  == batch.frame_count + 1
           b1  == [batch EXCEPT !.frame_count = fc]
           due == should_process(fc, b1.sample_rate)
           b2  == [b1 EXCEPT !.processed_count = @ + 1,
                             !.inference_calls = @ + 1,
                             !.inferred = @ \cup {fc}]
           b3  == IF due
                  THEN [b2 EXCEPT !.last_overlay_bgr = OverlayOf(Frame(fc))]
                  ELSE b1
           w   == FrameToWrite(b3.last_overlay_bgr, Frame(fc))
       IN batch' =
            IF due /\ ~ok
            THEN BatchRaise([b2 EXCEPT !.failed = TRUE], "InferenceError")
            ELSE [b3 EXCEPT !.output_file.frames = Append(@, w)]
    /\ UNCHANGED <<stream, calc>>

\* the ffmpeg pass with the original removed whatever its outcome
ReencodePassUnlinkFirst(b, ffmpeg) ==
    IF ffmpeg = "ok"
    THEN [b EXCEPT !.ffmpeg = ffmpeg,
                   !.final_file = [exists |-> TRUE,
                                   frames |-> Reencode(b.output_file.frames)],
                   !.output_file = NoFile,
                   !.returned = "final_output"]
    ELSE [b EXCEPT !.ffmpeg = ffmpeg,
                   !.output_file = NoFile,
                   !.returned = "output_path"]

\* lines 442-459: subprocess.run(ffmpeg ...); on success the original is
\* unlinked and final_output returned, on CalledProcessError or
\* FileNotFoundError output_path is returned
ReencodePass(b, ffmpeg) ==
    IF ffmpeg = "ok"
    THEN [b EXCEPT !.ffmpeg = ffmpeg,
                   !.final_file = [exists |-> TRUE,
                                   frames |-> Reencode(b.output_file.frames)],
                   !.output_file = NoFile,
                   !.returned = "final_output"]
    ELSE [b EXCEPT !.ffmpeg = ffmpeg, !.returned = "output_path"]

\* cap.read() reports the end: both handles released, the ffmpeg pass
\* (ffmpeg: "ok", "failed" = CalledProcessError, "missing" =
\* FileNotFoundError), the finally block, then segment_video answers with
\* the file and schedules cleanup_file
BatchEnd(ffmpeg) ==
    /\ batch.pc = "loop"
    /\ LET b1 == [batch EXCEPT !.cap = "released", !.out = "released"]
           b2 == ReencodePass(b1, ffmpeg)
           b3 == BatchFinally(b2)
           f  == IF b3.returned = "final_output"
                 THEN b3.final_file ELSE b3.output_file
       IN batch' =
            IF ~f.exists
            THEN [b3 EXCEPT !.pc = "raised", !.exc = "Exception",
                            !.response = "error500"]
            ELSE [b3 EXCEPT !.pc = "returned", !.response = "file",
                            !.body = f.frames, !.cleanup = "scheduled"]
    /\ UNCHANGED <<stream, calc>>

\* the background task: cleanup_file(output_path)
cleanup_file ==
    /\ batch.cleanup = "scheduled"
    /\ batch' = IF batch.returned = "final_output"
                THEN [batch EXCEPT !.final_file = NoFile, !.cleanup = "done"]
                ELSE [batch EXCEPT !.output_file = NoFile, !.cleanup = "done"]
    /\ UNCHANGED <<stream, calc>>

\* ------------------------------------------------------------ specification
\* calc holds the arguments and results of the synthesis and statistics
\* functions when they are exercised on their own; no request uses it
CalcIdle == [op |-> "idle"]

Init ==
    /\ batch = BatchInit
    /\ stream = StreamInit
    /\ calc = CalcIdle

Next ==
    \/ \E raw \in SampleRateInputs, known \in BOOLEAN : segment_video(raw, known)
    \/ \E opened \in BOOLEAN, reported \in ReportedCounts,
          avail \in SUBSET {codecs[i] : i \in 1..Len(codecs)} :
            CreateOpen(opened, reported, avail)
    \/ \E ok \in BOOLEAN : BatchFrame(ok)
    \/ \E ffmpeg \in {"ok", "failed", "missing"} : BatchEnd(ffmpeg)
    \/ cleanup_file
    \/ \E raw \in SampleRateInputs, known \in BOOLEAN :
            segment_video_stream(raw, known)
    \/ \E opened \in BOOLEAN, reported \in ReportedCounts :
            StreamOpen(opened, reported)
    \/ \E ok \in BOOLEAN : StreamFrame(ok)
    \/ StreamEnd
    \/ StreamReturn
    \/ StreamSend
    \/ StreamClose

Spec == Init /\ [][Next]_vars

\* ------------------------------------------------- palettes (constants.py)
CLASS_METADATA_4 ==
    <<[id |-> 0, name |-> "background", color |-> "#FF0000"],
      [id |-> 1, name |-> "uterus", color |-> "#0000FF"],
      [id |-> 2, name |-> "fallopian_tube", color |-> "#00FF00"],
      [id |-> 3, name |-> "ovary", color |-> "#A020F0"]>>

CLASS_METADATA_8 ==
    <<[id |-> 0, name |-> "background", color |-> "#000000"],
      [id |-> 1, name |-> "External Iliac Artery", color |-> "#FF0000"],
      [id |-> 2, name |-> "External Iliac Vein", color |-> "#0000FF"],
      [id |-> 3, name |-> "Obturator Nerve", color |-> "#00FF00"],
      [id |-> 4, name |-> "Ovary", color |-> "#FFFF00"],
      [id |-> 5, name |-> "Ureter", color |-> "#FF00FF"],
      [id |-> 6, name |-> "Uterine Artery", color |-> "#00FFFF"],
      [id |-> 7, name |-> "Uterus", color |-> "#A020F0"]>>

CLASS_METADATA_2 ==
    <<[id |-> 0, name |-> "background", color |-> "#000000"],
      [id |-> 1, name |-> "tissue", color |-> "#FF0000"]>>

get_class_metadata(num_classes) ==
    IF num_classes = 2 THEN CLASS_METADATA_2
    ELSE IF num_classes = 8 THEN CLASS_METADATA_8
    ELSE CLASS_METADATA_4

\* num_classes values a model configuration may carry: the three palettes
\* and two values that fall back to the 4-class palette
ClassCounts == {2, 3, 4, 5, 8}

\* ---------------------------------------------------------------- grids
\* largest number of pixels of a grid or an image
MaxPixels == 3

\* largest number of frames handed to aggregate_video_statistics
MaxStatFrames == 2

\* a grid is the flattened sequence of its pixels
Grids(values, maxlen) == UNION {[1..n -> values] : n \in 1..maxlen}

SeqsUpTo(S, maxlen) == UNION {[1..n -> S] : n \in 0..maxlen}

\* ------------------------------------------------------------ statistics
\* Python's round() of the fraction n / d (n >= 0, d > 0) to an integer,
\* ties to even; percentages are kept in hundredths of a percent, so this
\* is round(x, 2)
RoundHalfEven(n, d) ==
    LET q == n \div d
        r == n % d
    IN IF 2 * r < d THEN q
       ELSE IF 2 * r > d THEN q + 1
       ELSE IF q % 2 = 0 THEN q ELSE q + 1

\* int(np.sum(mask == class_id))
PixelCount(mask, class_id) ==
    Cardinality({i \in 1..Len(mask) : mask[i] = class_id})

\* np.sum(mask >= class_id) in place of np.sum(mask == class_id)
calculate_statistics_ge(mask, num_classes) ==
    LET class_metadata == get_class_metadata(num_classes)
        total_pixels == Len(mask)
    IN [k \in 1..Len(class_metadata) |->
          LET class_info == class_metadata[k]
              pixel_count ==
                  Cardinality({i \in 1..Len(mask) : mask[i] >= class_info.id})
          IN [id |-> class_info.id, name |-> class_info.name,
              color |-> class_info.color,
              area_percent |-> RoundHalfEven(pixel_count * 10000, total_pixels),
              present |-> pixel_count > 0]]

\* calculate_statistics for a non-empty mask; area_percent in hundredths
calculate_statistics(mask, num_classes) ==
    LET class_metadata == get_class_metadata(num_classes)
        total_pixels == Len(mask)
    IN [k \in 1..Len(class_metadata) |->
          LET class_info == class_metadata[k]
              pixel_count == PixelCount(mask, class_info.id)
          IN [id |-> class_info.id, name |-> class_info.name,
              color |-> class_info.color,
              area_percent |-> RoundHalfEven(pixel_count * 10000, total_pixels),
              present |-> pixel_count > 0]]

\* next((s for s in frame_stat if s['id'] == class_id), None): the position
\* of the first entry of the class, 0 for None
FindStat(frame_stat, class_id) ==
    IF \E k \in 1..Len(frame_stat) : frame_stat[k].id = class_id
    THEN CHOOSE k \in 1..Len(frame_stat) :
            /\ frame_stat[k].id = class_id
            /\ \A j \in 1..(k - 1) : frame_stat[j].id # class_id
    ELSE 0

\* the inner loop of aggregate_video_statistics over frames 1..n:
\* <<frames_present, total_area>>
RECURSIVE Accumulate(_, _, _)
Accumulate(frames_stats, class_id, n) ==
    IF n = 0 THEN <<0, 0>>
    ELSE LET acc == Accumulate(frames_stats, class_id, n - 1)
             k   == FindStat(frames_stats[n], class_id)
         IN IF k # 0 /\ frames_stats[n][k].present
            THEN <<acc[1] + 1, acc[2] + frames_stats[n][k].area_percent>>
            ELSE acc

NotBackground(class_info) == class_info.id # 0

\* aggregate_video_statistics averaging over the frames where the class is
\* present instead of over all frames
aggregate_over_present(frames_stats, num_classes) ==
    LET classes == SelectSeq(get_class_metadata(num_classes), NotBackground)
    IN [k \in 1..Len(classes) |->
          LET acc == Accumulate(frames_stats, classes[k].id, Len(frames_stats))
          IN [id |-> classes[k].id, name |-> classes[k].name,
              color |-> classes[k].color,
              frames_present |-> acc[1],
              avg_area_percent |->
                  IF acc[1] > 0 THEN RoundHalfEven(acc[2], acc[1]) ELSE 0]]

aggregate_video_statistics(frames_stats, num_classes) ==
    LET classes == SelectSeq(get_class_metadata(num_classes), NotBackground)
    IN [k \in 1..Len(classes) |->
          LET acc == Accumulate(frames_stats, classes[k].id, Len(frames_stats))
          IN [id |-> classes[k].id, name |-> classes[k].name,
              color |-> classes[k].color,
              frames_present |-> acc[1],
              avg_area_percent |->
                  IF Len(frames_stats) > 0
                  THEN RoundHalfEven(acc[2], Len(frames_stats))
                  ELSE 0]]

\* the frame lists the statistics are exercised on: one grid with any class
\* below num_classes, or up to MaxStatFrames grids of background and class 1
StatsInputs(num_classes) ==
    {<<g>> : g \in Grids(0..(num_classes - 1), MaxPixels)}
        \cup SeqsUpTo(Grids({0, 1}, MaxPixels), MaxStatFrames)

InitStats ==
    /\ batch = BatchInit
    /\ stream = StreamInit
    /\ \E num_classes \in ClassCounts :
         \E masks \in StatsInputs(num_classes) :
            calc = [op |-> "stats", num_classes |-> num_classes,
                    masks |-> masks, frames_stats |-> <<>>,
                    aggregated |-> <<>>, done |-> FALSE]

\* calculate_statistics applied to the next frame's mask
StatsFrame ==
    /\ calc.op = "stats"
    /\ Len(calc.frames_stats) < Len(calc.masks)
    /\ calc' = [calc EXCEPT !.frames_stats =
                   Append(@, calculate_statistics(
                                 calc.masks[Len(calc.frames_stats) + 1],
                                 calc.num_classes))]
    /\ UNCHANGED <<batch, stream>>

\* aggregate_video_statistics applied to the statistics of all frames
Aggregate ==
    /\ calc.op = "stats"
    /\ Len(calc.frames_stats) = Len(calc.masks)
    /\ ~calc.done
    /\ calc' = [calc EXCEPT !.aggregated =
                   aggregate_video_statistics(calc.frames_stats,
                                              calc.num_classes),
                            !.done = TRUE]
    /\ UNCHANGED <<batch, stream>>

NextStats == StatsFrame \/ Aggregate

SpecStats == InitStats /\ [][NextStats]_vars

\* -------------------------------------------------------- mask synthesis
\* COLOR_MAP_n[id] is the (id + 1)-th triple
COLOR_MAP_4 == <<<<255, 0, 0>>, <<0, 0, 255>>, <<0, 255, 0>>, <<160, 32, 240>>>>

COLOR_MAP_8 ==
    <<<<0, 0, 0>>, <<255, 0, 0>>, <<0, 0, 255>>, <<0, 255, 0>>,
      <<255, 255, 0>>, <<255, 0, 255>>, <<0, 255, 255>>, <<160, 32, 240>>>>

COLOR_MAP_2 == <<<<0, 0, 0>>, <<255, 0, 0>>>>

get_color_map(num_classes) ==
    IF num_classes = 2 THEN COLOR_MAP_2
    ELSE IF num_classes = 8 THEN COLOR_MAP_8
    ELSE COLOR_MAP_4

\* mask_to_color: zeros, then every class of the colour map painted
mask_to_color(mask, num_classes) ==
    LET color_map == get_color_map(num_classes)
    IN [i \in 1..Len(mask) |->
          IF mask[i] < Len(color_map) THEN color_map[mask[i] + 1]
          ELSE <<0, 0, 0>>]

\* Image.resize(..., Image.BILINEAR) of a row of m pixels to n pixels:
\* output pixel i samples position ((2i - 1) m - n) / 2n of the input and
\* interpolates its two neighbours, channel by channel
Resize(img, n) ==
    LET m == Len(img)
    IN [i \in 1..n |->
          LET pos  == (2 * i - 1) * m - n
              lo   == pos \div (2 * n)
              frac == pos % (2 * n)
          IN IF pos <= 0 THEN img[1]
             ELSE IF lo >= m - 1 THEN img[m]
             ELSE [c \in 1..3 |->
                     (img[lo + 1][c] * (2 * n - frac) + img[lo + 2][c] * frac + n)
                         \div (2 * n)]]

\* alpha = 0.4, in tenths
AlphaTenths == 4

\* ((1 - alpha) * orig + alpha * color).astype(np.uint8), channel by channel
Blend(orig, color) ==
    [c \in 1..3 |-> ((10 - AlphaTenths) * orig[c] + AlphaTenths * color[c]) \div 10]

\* a non_background test that selects every pixel
non_background_all(class_id) == class_id >= 0

\* non_background = mask > 0
non_background(class_id) == class_id > 0

\* create_overlay: the original resized to the mask, blended with the
\* colour mask where the mask is not background
create_overlay(original_image, color_mask, mask) ==
    LET orig_array == Resize(original_image, Len(color_mask))
    IN [i \in 1..Len(orig_array) |->
          IF non_background(mask[i])
          THEN Blend(orig_array[i], color_mask[i])
          ELSE orig_array[i]]

\* RGB pixels an input frame is made of
PixelValues == {<<255, 255, 255>>, <<10, 20, 30>>}

InitOverlay ==
    /\ batch = BatchInit
    /\ stream = StreamInit
    /\ \E num_classes \in ClassCounts :
         \E original_image \in Grids(PixelValues, MaxPixels),
            mask \in Grids(0..(num_classes - 1), MaxPixels) :
            calc = [op |-> "overlay", num_classes |-> num_classes,
                    original_image |-> original_image, mask |-> mask,
                    color_mask |-> <<>>, overlay |-> <<>>,
                    step |-> "mask"]

\* process_segmentation_result: color_mask = mask_to_color(mask, num_classes)
MaskToColor ==
    /\ calc.op = "overlay"
    /\ calc.step = "mask"
    /\ calc' = [calc EXCEPT !.color_mask = mask_to_color(calc.mask,
                                                         calc.num_classes),
                            !.step = "colored"]
    /\ UNCHANGED <<batch, stream>>

\* process_segmentation_result: overlay = create_overlay(original_image,
\* color_mask, mask)
CreateOverlay ==
    /\ calc.op = "overlay"
    /\ calc.step = "colored"
    /\ calc' = [calc EXCEPT !.overlay = create_overlay(calc.original_image,
                                                       calc.color_mask,
                                                       calc.mask),
                            !.step = "blended"]
    /\ UNCHANGED <<batch, stream>>

NextOverlay == MaskToColor \/ CreateOverlay

SpecOverlay == InitOverlay /\ [][NextOverlay]_vars

\* ------------------------------------------------------- mask generation
\* Scores of an engine output, in tenths (0.2 and 0.7, either side of 0.5)
Scores == {2, 7}

\* Ranks of an engine output array
Ranks == {2, 3, 4}

\* An engine output array: its rank and its planes along axis 0, each
\* plane flattened to a row of scores (no plane: shape[0] = 0)
Outputs ==
    UNION {[ndim : Ranks, planes : SeqsUpTo({g \in Grids(Scores, MaxPixels) :
                                                Len(g) = n}, 2)] :
           n \in 1..MaxPixels}

\* the prototype-mask output that follows the detections
ProtoOutput == [ndim |-> 4, planes |-> <<<<2>>>>]

\* run_inference for yolo: the list of all outputs of session.run
YoloLogits ==
    {<<>>} \cup {<<o>> : o \in Outputs} \cup {<<o, ProtoOutput>> : o \in Outputs}

\* run_inference for segformer: outputs[0], one batch entry of class planes
SegformerLogits == {<<o.planes>> : o \in {x \in Outputs : Len(x.planes) > 0}}

\* np.argmax(output, axis=0): the first plane holding the largest score
ArgMax(planes) ==
    [i \in 1..Len(planes[1]) |->
        CHOOSE k \in 0..(Len(planes) - 1) :
            /\ \A j \in 1..Len(planes) : planes[j][i] <= planes[k + 1][i]
            /\ \A j \in 1..k : planes[j][i] < planes[k + 1][i]]

\* (output[0] > 0.5).astype(np.uint8)
Threshold(plane) == [i \in 1..Len(plane) |-> IF plane[i] > 5 THEN 1 ELSE 0]

\* np.zeros((h, w), dtype=np.uint8)
Zeros(n) == [i \in 1..n |-> 0]

\* cv2.resize(mask, original_size, interpolation=cv2.INTER_NEAREST)
ResizeNearest(mask, original_size) ==
    IF original_size = None THEN mask
    ELSE [i \in 1..original_size.width |->
            mask[((i - 1) * Len(mask)) \div original_size.width + 1]]

\* the try block of the yolo branch: an exception inside it leaves the
\* zero mask
YoloDecode(output, zeros) ==
    IF output.ndim >= 3
    THEN IF Len(output.planes) > 1 THEN ArgMax(output.planes)
         ELSE IF Len(output.planes) = 0 THEN zeros
         ELSE Threshold(output.planes[1])
    ELSE zeros

\* generate_mask: output = logits[0] is read before the emptiness guard
\* and outside the try block
generate_mask(logits, original_size, model_type, input_shape) ==
    IF model_type = "yolo"
    THEN IF Len(logits) = 0
         THEN [raised |-> "IndexError", mask |-> <<>>]
         ELSE [raised |-> "none",
               mask |-> ResizeNearest(YoloDecode(logits[1], Zeros(input_shape)),
                                      original_size)]
    ELSE [raised |-> "none",
          mask |-> ResizeNearest(ArgMax(logits[1]), original_size)]

InitMask ==
    /\ batch = BatchInit
    /\ stream = StreamInit
    /\ \E model_type \in {"yolo", "segformer"} :
         \E logits \in IF model_type = "yolo" THEN YoloLogits
                       ELSE SegformerLogits,
            original_size \in {None} \cup {[width |-> w] : w \in 1..MaxPixels},
            input_shape \in 1..MaxPixels :
            calc = [op |-> "mask", model_type |-> model_type,
                    logits |-> logits, original_size |-> original_size,
                    input_shape |-> input_shape,
                    raised |-> "none", mask |-> <<>>, step |-> "logits"]

\* process_segmentation_result: mask = generate_mask(logits, original_size,
\* model_type, input_shape)
GenerateMask ==
    /\ calc.op = "mask"
    /\ calc.step = "logits"
    /\ LET r == generate_mask(calc.logits, calc.original_size,
                              calc.model_type, calc.input_shape)
       IN calc' = [calc EXCEPT !.raised = r.raised, !.mask = r.mask,
                               !.step = IF r.raised = "none" THEN "mask"
                                        ELSE "raised"]
    /\ UNCHANGED <<batch, stream>>

NextMask == GenerateMask

SpecMask == InitMask /\ [][NextMask]_vars

\* -------------------------------------------- both delivery modes, one video
\* Frames of the video both requests upload
MaxBothFrames == 4

\* The upload and the engine shared by the two requests: frames decoded,
\* frame count the container reports, frames on which inference raises,
\* and the sample_rate both requests ask for
Videos ==
    {[op |-> "video", frames |-> n, reported |-> r, fails |-> f, raw |-> raw] :
        n \in 0..MaxBothFrames, r \in 0..MaxBothFrames,
        f \in {{}} \cup {{i} : i \in 1..MaxBothFrames},
        raw \in {x \in SampleRateInputs : x <= MaxBothFrames + 1}}

\* both routes have accepted their request for the same upload
InitBoth ==
    /\ calc \in {v \in Videos : v.fails \subseteq 1..v.frames}
    /\ batch = [BatchInit EXCEPT !.raw_rate = calc.raw,
                                 !.sample_rate = Clamp(calc.raw),
                                 !.pc = "called"]
    /\ stream = [StreamInit EXCEPT !.raw_rate = calc.raw,
                                   !.sample_rate = Clamp(calc.raw),
                                   !.pc = "created",
                                   !.response = "streaming"]

\* cv2.VideoCapture opens the upload and reports its frame count
BothCreateOpen(avail) ==
    /\ calc.op = "video"
    /\ CreateOpen(TRUE, calc.reported, avail)

\* cap.read() returns the next frame of the video; the engine raises on
\* the frames of calc.fails
BothBatchFrame ==
    /\ batch.frame_count < calc.frames
    /\ BatchFrame((batch.frame_count + 1) \notin calc.fails)

BothBatchEnd(ffmpeg) ==
    /\ batch.frame_count = calc.frames
    /\ BatchEnd(ffmpeg)

BothStreamOpen ==
    /\ calc.op = "video"
    /\ StreamOpen(TRUE, calc.reported)

BothStreamFrame ==
    /\ stream.frame_count < calc.frames
    /\ StreamFrame((stream.frame_count + 1) \notin calc.fails)

BothStreamEnd ==
    /\ stream.frame_count = calc.frames
    /\ StreamEnd

NextBoth ==
    \/ \E avail \in SUBSET {codecs[i] : i \in 1..Len(codecs)} :
            BothCreateOpen(avail)
    \/ BothBatchFrame
    \/ \E ffmpeg \in {"ok", "failed", "missing"} : BothBatchEnd(ffmpeg)
    \/ cleanup_file
    \/ BothStreamOpen
    \/ BothStreamFrame
    \/ BothStreamEnd
    \/ StreamReturn
    \/ StreamSend
    \/ StreamClose

SpecBoth == InitBoth /\ [][NextBoth]_vars

\* ============================================================== properties
\* the spec's definitions of a due frame, independent of the loops' state
Due(i, sample_rate) == (i - 1) % sample_rate = 0
LastDue(i, sample_rate) == i - ((i - 1) % sample_rate)
DueCount(n, sample_rate) == Cardinality({i \in 1..n : Due(i, sample_rate)})
Ceil(n, d) == (n + d - 1) \div d

IsFrameEvent(e) == e.type = "frame"
FrameEvents == SelectSeq(stream.events, IsFrameEvent)
HasComplete == \E k \in 1..Len(stream.events) : stream.events[k].type = "complete"

\* C1: a stream that terminated normally emitted one metadata event, then
\* frame events with strictly increasing frame_index, then one complete
\* event and nothing after it
C1_EventOrder ==
    stream.pc = "returned" =>
        LET ev == stream.events
            n  == Len(ev)
        IN /\ n >= 2
           /\ ev[1].type = "metadata"
           /\ ev[n].type = "complete"
           /\ \A k \in 2..(n - 1) : ev[k].type = "frame"
           /\ \A k \in 2..(n - 2) : ev[k].frame_index < ev[k + 1].frame_index

C1_Witness ==
    /\ stream.pc = "returned"
    /\ Len(stream.events) = 5
    /\ stream.sample_rate = 2

\* C2: when a frame loop (batch or streaming) has consumed all N >= 1
\* frames of the video, processed_count = ceil(N / sample_rate), for every
\* sample_rate in 1..30; N is the reported total_frame_count whenever the
\* container reports the number of frames that decode
C2_ProcessedCount ==
    /\ (batch.pc = "returned" /\ batch.frame_count >= 1) =>
          /\ batch.sample_rate \in MinSampleRate..MaxSampleRate
          /\ batch.processed_count =
                Ceil(batch.frame_count, batch.sample_rate)
    /\ (stream.pc \in {"complete", "returned"} /\ stream.frame_count >= 1) =>
          /\ stream.sample_rate \in MinSampleRate..MaxSampleRate
          /\ stream.processed_count =
                Ceil(stream.frame_count, stream.sample_rate)

C2_Witness ==
    /\ batch.pc = "returned"
    /\ batch.total_frames = 5
    /\ batch.frame_count = 5
    /\ batch.sample_rate = 2
    /\ batch.processed_count = 3

\* C3: the output of every frame that is not due (the frame the batch sink
\* wrote, the image the streaming frame event carries) is the overlay
\* computed for the most recent due frame
C3_Reuse ==
    /\ \A i \in 1..Len(batch.output_file.frames) :
          ~Due(i, batch.sample_rate) =>
              /\ batch.output_file.frames[i] =
                    OverlayOf(Frame(LastDue(i, batch.sample_rate)))
              /\ batch.output_file.frames[i] =
                    batch.output_file.frames[LastDue(i, batch.sample_rate)]
    /\ \A k \in 1..Len(FrameEvents) :
          ~Due(FrameEvents[k].frame_index, stream.sample_rate) =>
              /\ FrameEvents[k].frame_data =
                    imencode(OverlayOf(Frame(LastDue(k, stream.sample_rate))))
              /\ FrameEvents[k].frame_data =
                    FrameEvents[LastDue(k, stream.sample_rate)].frame_data

C3_Witness ==
    /\ batch.sample_rate = 3
    /\ Len(batch.output_file.frames) = 6
    /\ batch.output_file.frames[6] = OverlayOf(Frame(4))

\* C4: on every exit path the claim lists (normal completion, no writer
\* opens, a due frame raises) the capture and the writer are released, the
\* temporary input file is removed and, on failure, the temporary output
\* file too
C4_Released ==
    /\ (batch.pc = "returned"
        \/ (batch.pc = "raised" /\ batch.exc = "InferenceError")
        \/ (batch.pc = "raised" /\ batch.exc = "ValueError"
            /\ batch.tried # <<>>)) =>
          /\ batch.cap # "open"
          /\ batch.out # "open"
          /\ ~batch.tmp_in
          /\ (batch.pc = "raised" => ~batch.output_file.exists)
    /\ (stream.pc = "returned"
        \/ (stream.pc = "raised" /\ stream.exc = "InferenceError")) =>
          /\ stream.cap # "open"
          /\ ~stream.tmp_in

\* C5: a failure on a due frame ends the batch request with the one error
\* response and is not retried; a file response carries one frame per input
\* frame, and no partial file is ever sent
C5_Fatal ==
    /\ batch.failed =>
          /\ batch.pc = "raised"
          /\ batch.response = "error500"
          /\ batch.body = <<>>
    /\ batch.response = "file" =>
          /\ ~batch.failed
          /\ Len(batch.body) = batch.frame_count
    /\ batch.sample_rate >= 1 =>
          batch.inference_calls = DueCount(batch.frame_count, batch.sample_rate)

C5_Witness ==
    /\ batch.failed
    /\ batch.response = "error500"
    /\ Len(batch.output_file.frames) = 3
    /\ batch.inference_calls = 2

\* C6: a stream that fails after the metadata event ends with the
\* generator raising (not returning) and never emits a complete event
C6_ErrorSignal ==
    /\ stream.failed => stream.pc = "raised"
    /\ (stream.pc = "raised" /\ stream.events # <<>>) =>
          /\ stream.exc # "none"
          /\ ~HasComplete

C6_Witness ==
    /\ stream.failed
    /\ stream.pc = "raised"
    /\ Len(stream.events) = 3

\* C7: once the metadata event reports total_frames = 0 the stream emits no
\* frame event, never divides by zero, and ends as [metadata, complete]
C7_ZeroTotal ==
    (stream.events # <<>> /\ stream.total_frames = 0) =>
        /\ stream.exc # "ZeroDivisionError"
        /\ Len(FrameEvents) = 0
        /\ stream.pc = "returned" => Len(stream.events) = 2

C9_CompleteTotals ==
    HasComplete =>
        LET c == stream.events[Len(stream.events)]
        IN /\ c.type = "complete"
           /\ c.total_frames = stream.frame_count
           /\ c.total_frames = Len(FrameEvents)
           /\ c.processed_frames = stream.inference_calls

C9_Witness ==
    /\ HasComplete
    /\ stream.frame_count = 5
    /\ stream.inference_calls = 2

\* C10: both endpoints hand the frame loop a sample_rate in 1..30: values
\* below 1 become 1, values above 30 become 30, so the due test never sees
\* sample_rate <= 0
C10_Clamped ==
    /\ batch.pc # "idle" =>
          /\ batch.sample_rate \in MinSampleRate..MaxSampleRate
          /\ batch.raw_rate < MinSampleRate => batch.sample_rate = MinSampleRate
          /\ batch.raw_rate > MaxSampleRate => batch.sample_rate = MaxSampleRate
    /\ stream.pc # "idle" =>
          /\ stream.sample_rate \in MinSampleRate..MaxSampleRate
          /\ stream.raw_rate < MinSampleRate => stream.sample_rate = MinSampleRate
          /\ stream.raw_rate > MaxSampleRate => stream.sample_rate = MaxSampleRate

C10_Witness ==
    /\ stream.raw_rate = 0 - 5
    /\ stream.sample_rate = 1
    /\ stream.frame_count = 2
    /\ stream.pc = "frame"

\* C11: the encoders are tried in the order avc1, H264, X264, mp4v; the
\* writer of all frames is the first one that opens and nothing is tried
\* after it; when none opens the request fails before a frame is read or
\* written
C11_CodecOrder ==
    batch.tried # <<>> =>
        /\ Len(batch.tried) <= Len(codecs)
        /\ \A i \in 1..Len(batch.tried) : batch.tried[i] = codecs[i]
        /\ \A i \in 1..(Len(batch.tried) - 1) : batch.tried[i] \notin batch.avail
        /\ batch.out = "open" =>
              /\ batch.codec = batch.tried[Len(batch.tried)]
              /\ batch.codec \in batch.avail
        /\ (batch.avail \cap {codecs[i] : i \in 1..Len(codecs)}) # {} =>
              batch.codec \in batch.avail
        /\ (batch.avail \cap {codecs[i] : i \in 1..Len(codecs)}) = {} =>
              /\ batch.tried = codecs
              /\ batch.pc = "raised"
              /\ batch.exc = "ValueError"
              /\ batch.response = "error500"
              /\ batch.frame_count = 0
              /\ batch.output_file.frames = <<>>

C11_Witness ==
    /\ batch.pc = "loop"
    /\ batch.tried = <<"avc1", "H264", "X264">>
    /\ batch.codec = "X264"
    /\ batch.avail = {"X264", "mp4v"}
    /\ Len(batch.output_file.frames) = 2

\* C12: once all frames are written, a failed or unavailable re-encoding
\* pass does not fail the request: the originally written file is returned
\* and still exists; after a successful pass the re-encoded file is
\* returned and the originally written file is gone
C12_ReencodeFallback ==
    batch.ffmpeg # "none" =>
        /\ batch.ffmpeg \in {"failed", "missing"} =>
              /\ batch.pc = "returned"
              /\ batch.response = "file"
              /\ batch.returned = "output_path"
              /\ batch.cleanup = "scheduled" =>
                    /\ batch.output_file.exists
                    /\ batch.body = batch.output_file.frames
              /\ Len(batch.body) = batch.frame_count
        /\ batch.ffmpeg = "ok" =>
              /\ batch.pc = "returned"
              /\ batch.response = "file"
              /\ batch.returned = "final_output"
              /\ ~batch.output_file.exists
              /\ batch.cleanup = "scheduled" =>
                    /\ batch.final_file.exists
                    /\ batch.body = batch.final_file.frames
              /\ Len(batch.body) = batch.frame_count

C12_Witness ==
    /\ batch.ffmpeg = "missing"
    /\ batch.returned = "output_path"
    /\ batch.response = "file"
    /\ batch.output_file.exists
    /\ Len(batch.output_file.frames) = 3

\* C13: production is demand-driven: frame k + 1 is read only after the
\* consumer has taken the event of frame k, so at most one produced event
\* waits for the consumer and the first event is sent before any frame is
\* read
SentFrames == Len(SelectSeq(stream.sent, LAMBDA c : c.data.type = "frame"))

C13_DemandDriven ==
    /\ Len(stream.events) - Len(stream.sent) \in {0, 1}
    /\ \A k \in 1..Len(stream.sent) : stream.sent[k] = Sse(stream.events[k])
    /\ stream.frame_count <= SentFrames + 1
    /\ stream.frame_count >= 1 => Len(stream.sent) >= 1

C13_Witness ==
    /\ stream.pc = "frame"
    /\ stream.frame_count = 4
    /\ Len(stream.events) = 5
    /\ Len(stream.sent) = 4

\* C14: when the consumer drops the stream after the metadata event, the
\* frame loop stops, the capture is released and the temporary input file
\* is removed
C14_AbortReleases ==
    stream.pc = "closed" =>
        /\ ~ENABLED (\E ok \in BOOLEAN : StreamFrame(ok))
        /\ ~stream.tmp_in
        /\ stream.cap # "open"

\* C19: in both frame loops inference runs on exactly the frames whose
\* 1-based index i has (i - 1) mod sample_rate = 0; every step of a loop
\* raises frame_count by exactly 1 and, on a frame that is not due, leaves
\* processed_count and last_overlay unchanged
LoopStep(old, new) ==
    /\ new.inferred = {i \in 1..new.frame_count : Due(i, new.sample_rate)}
    /\ new.frame_count # old.frame_count =>
          /\ new.frame_count = old.frame_count + 1
          /\ Due(new.frame_count, new.sample_rate) =>
                /\ new.processed_count = old.processed_count + 1
                /\ new.inferred = old.inferred \cup {new.frame_count}
          /\ ~Due(new.frame_count, new.sample_rate) =>
                /\ new.processed_count = old.processed_count
                /\ new.last_overlay_bgr = old.last_overlay_bgr
                /\ new.inferred = old.inferred

C19_DueFrames == [][LoopStep(batch, batch') /\ LoopStep(stream, stream')]_vars

C19_Witness ==
    /\ batch.sample_rate = 5
    /\ batch.frame_count = 10
    /\ batch.inferred = {1, 6}
    /\ batch.processed_count = 2

\* C20 as stated: the batch sink writes last_overlay if it is set and the
\* original frame otherwise, and the first sample_rate - 1 frames of the
\* video are written verbatim
C20_VerbatimPrefix ==
    \A i \in 1..Len(batch.output_file.frames) :
        i <= batch.sample_rate - 1 => batch.output_file.frames[i] = Frame(i)

\* C20 amended: the batch sink writes last_overlay if it is set and the
\* original frame otherwise; the first frame is always due, so last_overlay
\* is set for every frame written and no frame is written verbatim
C20_WritesOverlay ==
    [][Len(batch'.output_file.frames) = Len(batch.output_file.frames) + 1 =>
          LET w == batch'.output_file.frames[Len(batch'.output_file.frames)]
          IN /\ w = IF batch'.last_overlay_bgr # None
                    THEN batch'.last_overlay_bgr
                    ELSE Frame(batch'.frame_count)
             /\ batch'.last_overlay_bgr # None
             /\ w # Frame(batch'.frame_count)
             /\ \A i \in 1..Len(batch'.output_file.frames) :
                   batch'.output_file.frames[i] # Frame(i)]_vars

C20_Witness ==
    /\ batch.sample_rate = 3
    /\ Len(batch.output_file.frames) = 2
    /\ batch.output_file.frames[1] = OverlayOf(Frame(1))
    /\ batch.output_file.frames[2] = OverlayOf(Frame(1))

\* the size of the palette the spec selects for a class count
PaletteSize(class_count) ==
    IF class_count = 2 THEN 2 ELSE IF class_count = 8 THEN 8 ELSE 4

Abs(x) == IF x < 0 THEN 0 - x ELSE x

RECURSIVE SumTo(_, _)
SumTo(f, n) == IF n = 0 THEN 0 ELSE f[n] + SumTo(f, n - 1)

\* the sum of area_percent over all entries of one frame's statistics
AreaSum(stats) == SumTo([k \in 1..Len(stats) |-> stats[k].area_percent], Len(stats))

\* the sum, over all frames, of the area_percent of class id (the entry of
\* class id is the (id + 1)-th of a frame's statistics)
ClassAreaSum(frames_stats, id) ==
    SumTo([j \in 1..Len(frames_stats) |-> frames_stats[j][id + 1].area_percent],
          Len(frames_stats))

\* C15 as stated: one entry per non-background class, frames_present counts
\* the frames where the class is present, and avg_area_percent equals the
\* sum of the class's area_percent over all frames divided by the number of
\* frames (0 for an empty list)
C15_ExactAverage ==
    (calc.op = "stats" /\ calc.done) =>
        LET n == Len(calc.frames_stats)
        IN /\ Len(calc.aggregated) = PaletteSize(calc.num_classes) - 1
           /\ \A k \in 1..Len(calc.aggregated) :
                 LET a == calc.aggregated[k]
                 IN /\ a.id = k
                    /\ a.frames_present =
                          Cardinality({j \in 1..n :
                                          calc.frames_stats[j][k + 1].present})
                    /\ n * a.avg_area_percent =
                          ClassAreaSum(calc.frames_stats, k)

\* C15 amended: as above, with avg_area_percent the quotient rounded to 2
\* decimals (within half a hundredth of the exact quotient)
C15_Aggregate ==
    (calc.op = "stats" /\ calc.done) =>
        LET n == Len(calc.frames_stats)
        IN /\ Len(calc.aggregated) = PaletteSize(calc.num_classes) - 1
           /\ \A k \in 1..Len(calc.aggregated) :
                 LET a == calc.aggregated[k]
                 IN /\ a.id = k
                    /\ a.id # 0
                    /\ a.frames_present =
                          Cardinality({j \in 1..n :
                                          calc.frames_stats[j][k + 1].present})
                    /\ 2 * Abs(n * a.avg_area_percent
                                 - ClassAreaSum(calc.frames_stats, k)) <= n
                    /\ n = 0 => (a.frames_present = 0 /\ a.avg_area_percent = 0)
                    /\ n = 1 => a.avg_area_percent =
                                   calc.frames_stats[1][k + 1].area_percent

C15_Witness ==
    /\ calc.op = "stats"
    /\ calc.done
    /\ calc.masks = <<<<1, 0, 0>>, <<0>>>>
    /\ calc.aggregated[1].frames_present = 1
    /\ calc.aggregated[1].avg_area_percent \in {1666, 1667}

\* C16 as stated: for a non-empty grid whose values are all below
\* class_count, the area_percent values of the selected palette's classes
\* sum to 100 within rounding tolerance and the per-class pixel counts sum
\* to the number of pixels
C16_SumBelowClassCount ==
    calc.op = "stats" =>
        \A j \in 1..Len(calc.frames_stats) :
            (\A i \in 1..Len(calc.masks[j]) :
                 calc.masks[j][i] < calc.num_classes) =>
               /\ 2 * Abs(AreaSum(calc.frames_stats[j]) - 10000)
                     <= Len(calc.frames_stats[j])
               /\ SumTo([k \in 1..PaletteSize(calc.num_classes) |->
                            PixelCount(calc.masks[j], k - 1)],
                        PaletteSize(calc.num_classes)) = Len(calc.masks[j])

\* C16 amended: the same for every non-empty grid whose values are all
\* below the size of the palette selected for class_count
C16_SumInPalette ==
    calc.op = "stats" =>
        \A j \in 1..Len(calc.frames_stats) :
            (\A i \in 1..Len(calc.masks[j]) :
                 calc.masks[j][i] < PaletteSize(calc.num_classes)) =>
               /\ Len(calc.frames_stats[j]) = PaletteSize(calc.num_classes)
               /\ 2 * Abs(AreaSum(calc.frames_stats[j]) - 10000)
                     <= Len(calc.frames_stats[j])
               /\ SumTo([k \in 1..PaletteSize(calc.num_classes) |->
                            PixelCount(calc.masks[j], k - 1)],
                        PaletteSize(calc.num_classes)) = Len(calc.masks[j])

C16_Witness ==
    /\ calc.op = "stats"
    /\ calc.num_classes = 3
    /\ calc.masks = <<<<0, 1, 2>>>>
    /\ Len(calc.frames_stats) = 1
    /\ AreaSum(calc.frames_stats[1]) = 9999

\* C17: blending never alters background: wherever the grid is 0 the
\* overlay pixel equals the pixel of the resized original, so only pixels
\* with a non-zero class index are tinted
C17_BackgroundKept ==
    (calc.op = "overlay" /\ calc.step = "blended") =>
        LET resized == Resize(calc.original_image, Len(calc.mask))
        IN /\ Len(calc.overlay) = Len(calc.mask)
           /\ \A i \in 1..Len(calc.mask) :
                 /\ calc.mask[i] = 0 => calc.overlay[i] = resized[i]
                 /\ calc.overlay[i] # resized[i] => calc.mask[i] # 0

C17_Witness ==
    /\ calc.op = "overlay"
    /\ calc.step = "blended"
    /\ calc.num_classes = 4
    /\ calc.mask = <<0, 2, 0>>
    /\ calc.original_image = <<<<255, 255, 255>>, <<10, 20, 30>>>>
    /\ calc.overlay[1] = <<255, 255, 255>>
    /\ calc.overlay[2] # Resize(calc.original_image, 3)[2]
    /\ calc.overlay[3] = <<10, 20, 30>>

\* a yolo engine output that cannot be interpreted: empty output list,
\* rank below 3, or nothing along axis 0
Uninterpretable(logits) ==
    \/ Len(logits) = 0
    \/ /\ Len(logits) > 0
       /\ \/ logits[1].ndim < 3
          \/ Len(logits[1].planes) = 0

\* C18: for a yolo model generate_mask never raises; when the engine
\* output cannot be interpreted (empty output list, unexpected shape or
\* rank, decode failure) it yields an all-background grid
C18_NeverRaises ==
    (calc.op = "mask" /\ calc.model_type = "yolo" /\ calc.step # "logits") =>
        /\ calc.raised = "none"
        /\ Uninterpretable(calc.logits) =>
              /\ Len(calc.mask) > 0
              /\ \A i \in 1..Len(calc.mask) : calc.mask[i] = 0

\* C21: the first decoded frame is due for every sample_rate >= 1, so
\* wherever an output has been produced (a frame written, a frame event
\* emitted) processed_count >= 1 and last_overlay is set; the batch loop
\* never writes the original frame and the streaming loop never skips a
\* frame event because last_overlay is unset
C21_FirstFrameDue ==
    /\ Len(batch.output_file.frames) >= 1 =>
          /\ batch.sample_rate >= 1
          /\ 1 \in batch.inferred
          /\ batch.processed_count >= 1
          /\ batch.last_overlay_bgr # None
          /\ \A i \in 1..Len(batch.output_file.frames) :
                /\ batch.output_file.frames[i].overlaid
                /\ batch.output_file.frames[i] # Frame(i)
    /\ Len(FrameEvents) >= 1 =>
          /\ stream.sample_rate >= 1
          /\ 1 \in stream.inferred
          /\ stream.processed_count >= 1
          /\ stream.last_overlay_bgr # None
          /\ \A k \in 1..Len(FrameEvents) :
                FrameEvents[k].frame_index >= 1 =>
                    FrameEvents[k].processed_count >= 1
    /\ stream.pc # "loop"
    /\ stream.exc = "none" => Len(FrameEvents) = stream.frame_count

C21_Witness ==
    /\ stream.sample_rate = MaxSampleRate
    /\ stream.pc = "frame"
    /\ stream.frame_count = 2
    /\ Len(FrameEvents) = 2
    /\ stream.processed_count = 1
    /\ stream.last_overlay_bgr = OverlayOf(Frame(1))

\* the frames the batch loop has written, in order
Written ==
    IF batch.pc = "returned" THEN batch.body ELSE batch.output_file.frames

\* C22: for the same frames, configuration, sample_rate and a deterministic
\* engine, the batch loop and the streaming loop make the same due/reuse
\* decision on every frame, hold the same (frame_count, processed_count,
\* last_overlay) after each frame, output the same sequence of overlays
\* and report the same final counts
C22_SameOutputs ==
    (calc.op = "video" /\ batch.pc # "called" /\ stream.pc # "created") =>
        LET n == Min(batch.frame_count, stream.frame_count)
        IN /\ batch.sample_rate = stream.sample_rate
           /\ \A i \in 1..n : (i \in batch.inferred) = (i \in stream.inferred)
           /\ batch.frame_count = stream.frame_count =>
                 /\ batch.processed_count = stream.processed_count
                 /\ batch.last_overlay_bgr = stream.last_overlay_bgr
           /\ \A i \in 1..n :
                 i <= Len(Written) =>
                    /\ i <= Len(FrameEvents)
                    /\ FrameEvents[i].frame_data.src = Written[i].src
                    /\ FrameEvents[i].frame_data.overlaid = Written[i].overlaid
           /\ (batch.pc = "returned" /\ stream.pc # "closed"
                  /\ stream.frame_count = batch.frame_count) =>
                 /\ stream.pc # "raised"
                 /\ HasComplete =>
                       LET e == stream.events[Len(stream.events)]
                       IN /\ e.total_frames = batch.frame_count
                          /\ e.processed_frames = batch.processed_count

====
